---- MODULE Spec2Model ----
(***************************************************************************)
(* Model of src/app.py: a Streamlit script that fetches the daily history  *)
(* of one Taiwanese stock through a TTL-cached fetch_stock_data, derives   *)
(* moving averages and a volume ratio, shows the position's P&L and prints *)
(* two diagnosis panels.                                                   *)
(*                                                                         *)
(* A run of the script is the chain of steps                               *)
(*   load -> indicators -> metrics -> structural -> core -> done           *)
(* (or load -> stopped when no data was found).  Streamlit reruns the      *)
(* script for every change of the inputs; the cache of fetch_stock_data    *)
(* lives across the runs.                                                  *)
(*                                                                         *)
(* Numbers: pandas works with float64.  The model computes with exact      *)
(* rationals [k, n, d] (k = "num": n/d with d > 0) extended with the       *)
(* values "nan", "inf" and Python's None ("none"); floating-point rounding *)
(* is not modelled.  Every bar of a fetched series has a defined Close and *)
(* a Volume >= 0.                                                          *)
(***************************************************************************)
EXTENDS Integers, Sequences, FiniteSets, TLC

VARIABLES
    now,          \* the clock read by the cache (seconds)
    cache,        \* st.cache_data store of fetch_stock_data: raw argument -> entry
    runs,         \* number of script runs started so far
    pc,           \* position of the running script
    stock_id,     \* sidebar text input (sequence of characters)
    cost_price,   \* sidebar number input
    shares,       \* sidebar number input
    fetchLog,     \* network fetches issued by this run's call, in order
    df,           \* the series returned by fetch_stock_data (bars: Close, Volume)
    final_id,     \* the qualified identifier returned, or None
    err,          \* TRUE once st.error was shown
    ind,          \* indicators of section 5: curr_p, m5, m13, m37, slope_37
    vol_ratio,    \* the script's variable vol_ratio (assigned at lines 78, 153, 219)
    pnl,          \* what the position metric shows
    structural,   \* panel "trend structure diagnosis": regime, bias, guidance
    core          \* panel "core diagnosis": regime, talk

vars == << now, cache, runs, pc, stock_id, cost_price, shares, fetchLog, df,
           final_id, err, ind, vol_ratio, pnl, structural, core >>

----------------------------------------------------------------------------
(* Bounds of the model *)

MaxRuns == 3
MaxTime == 5400
TickStep == 1800
MaxBars == 39

(* Program constants *)

TTL == 3600
WinShort == 5
WinMid == 13
WinLong == 37
WinVol20 == 20
WinVol5 == 5

----------------------------------------------------------------------------
(* Extended rationals *)

RNum(n, d) == [k |-> "num", n |-> n, d |-> d]
RInt(i) == RNum(i, 1)
NaN == [k |-> "nan", n |-> 0, d |-> 1]
Inf == [k |-> "inf", n |-> 1, d |-> 1]
PyNone == [k |-> "none", n |-> 0, d |-> 1]
Unset == [k |-> "unset", n |-> 0, d |-> 1]

IsNum(x) == x.k = "num"
IsNa(x) == x.k = "nan"

RSub(x, y) ==
    IF ~IsNum(x) THEN x
    ELSE IF ~IsNum(y) THEN y
    ELSE RNum(x.n * y.d - y.n * x.d, x.d * y.d)

RMul(x, y) ==
    IF ~IsNum(x) THEN x
    ELSE IF ~IsNum(y) THEN y
    ELSE RNum(x.n * y.n, x.d * y.d)

\* float64 division: x/0 is inf (nan for 0/0), never an exception
RDiv(x, y) ==
    IF ~IsNum(x) THEN x
    ELSE IF ~IsNum(y) THEN y
    ELSE IF y.n = 0 THEN (IF x.n = 0 THEN NaN ELSE Inf)
    ELSE IF y.n > 0 THEN RNum(x.n * y.d, x.d * y.n)
    ELSE RNum(-(x.n * y.d), x.d * (-y.n))

\* comparisons with nan are False
RGt(x, y) ==
    \/ IsNum(x) /\ IsNum(y) /\ x.n * y.d > y.n * x.d
    \/ x.k = "inf" /\ IsNum(y)
RLt(x, y) == RGt(y, x)
REq(x, y) == IsNum(x) /\ IsNum(y) /\ x.n * y.d = y.n * x.d
RGe(x, y) == RGt(x, y) \/ REq(x, y) \/ (x.k = "inf" /\ y.k = "inf")

----------------------------------------------------------------------------
(* Symbols: strings as sequences of characters *)

IsSpace(c) == c = " "

UpperChar(c) ==
    CASE c = "a" -> "A"
      [] c = "b" -> "B"
      [] OTHER -> c

RECURSIVE LStrip(_)
LStrip(s) ==
    IF s = << >> THEN << >>
    ELSE IF IsSpace(Head(s)) THEN LStrip(Tail(s))
    ELSE s

RECURSIVE RStrip(_)
RStrip(s) ==
    IF s = << >> THEN << >>
    ELSE IF IsSpace(s[Len(s)]) THEN RStrip(SubSeq(s, 1, Len(s) - 1))
    ELSE s

Strip(s) == RStrip(LStrip(s))
Upper(s) == [i \in 1..Len(s) |-> UpperChar(s[i])]

\* sid.strip().upper()
Normalize(sid) == Upper(Strip(sid))

Suffixes == << <<".", "T", "W">>, <<".", "T", "W", "O">> >>

None == << >>
EmptyDF == << >>

----------------------------------------------------------------------------
(* Series: what the provider can answer for a qualified identifier *)

Bar(c, v) == [Close |-> c, Volume |-> v]

\* A series of n bars described from its end: the last bar closes at d, the
\* k1 bars before it at c, the k2 bars before those at b, the older bars that
\* still lie in the long window at a and the bars before the long window at e.
\* Every bar trades vbase shares, the last bar vlast.
Pattern(n, k1, k2, a, b, c, d, e, vbase, vlast) ==
    [i \in 1..n |->
        LET j == n - i IN
        Bar(IF j = 0 THEN d
            ELSE IF j <= k1 THEN c
            ELSE IF j <= k1 + k2 THEN b
            ELSE IF j < WinLong THEN a
            ELSE e,
            IF j = 0 THEN vlast ELSE vbase)]

Prices == {90, 100, 120}
Lengths == {1, WinShort - 1, WinShort, WinMid - 1, WinMid,
            WinLong - 1, WinLong, WinLong + 1, MaxBars}

ClassifyFamily ==
    { Pattern(n, k[1], k[2], a, b, c, d, e, v[1], v[2]) :
        n \in Lengths, k \in {<<0, 0>>, <<4, 8>>},
        a \in Prices, b \in Prices, c \in Prices, d \in Prices, e \in Prices,
        v \in {<<0, 0>>, <<1000, 1000>>, <<1000, 2000>>, <<1000, 0>>} }

FlowFamily ==
    { Pattern(WinShort - 1, 0, 0, 100, 100, 100, 100, 100, 1000, 1000),
      Pattern(WinLong + 1, 4, 8, 90, 100, 120, 120, 90, 1000, 2000) }

RawSymbols == { <<"a">>, <<"A", " ">>, <<"b">> }
CostInputs == {0, 100}
SharesInputs == {0, 1000}

\* the answer of one network fetch: an exception, or a (possibly empty) series
Raise == [kind |-> "raise", data |-> EmptyDF]
Data(s) == [kind |-> "data", data |-> s]
Responses == {Raise, Data(EmptyDF)} \cup { Data(s) : s \in FlowFamily }

----------------------------------------------------------------------------
(* fetch_stock_data and its cache *)

\* variant: an exception of a candidate's fetch ends the loop (no try/except)
RECURSIVE TryCandidatesNoCatch(_, _, _, _)
TryCandidatesNoCatch(sid, resp, i, log) ==
    IF i > Len(Suffixes) THEN [df |-> EmptyDF, id |-> None, log |-> log]
    ELSE LET q == sid \o Suffixes[i]
             log2 == Append(log, [id |-> q, resp |-> resp[i]])
         IN  IF resp[i].kind = "raise"
             THEN [df |-> EmptyDF, id |-> None, log |-> log2]
             ELSE IF resp[i].data # EmptyDF
             THEN [df |-> resp[i].data, id |-> q, log |-> log2]
             ELSE TryCandidatesNoCatch(sid, resp, i + 1, log2)

\* the loop of fetch_stock_data over the suffixes from the i-th on; resp[i] is
\* what yf answers to the i-th candidate if it is asked
RECURSIVE TryCandidates(_, _, _, _)
TryCandidates(sid, resp, i, log) ==
    IF i > Len(Suffixes) THEN [df |-> EmptyDF, id |-> None, log |-> log]
    ELSE LET q == sid \o Suffixes[i]
             log2 == Append(log, [id |-> q, resp |-> resp[i]])
         IN  IF resp[i].kind = "raise"
             THEN TryCandidates(sid, resp, i + 1, log2)      \* except: pass
             ELSE IF resp[i].data # EmptyDF
             THEN [df |-> resp[i].data, id |-> q, log |-> log2]
             ELSE TryCandidates(sid, resp, i + 1, log2)

\* the body of fetch_stock_data
FetchBody(sid, resp) == TryCandidates(Normalize(sid), resp, 1, << >>)

\* variant: the cache keyed by the normalized symbol
CacheKeyNormalized(sid) == Normalize(sid)

\* the key st.cache_data derives from the call's argument
CacheKey(sid) == sid

\* an entry is served while the clock is before its expiry
CacheValid(entry, t) == t < entry.at + TTL

\* variant: only a successful result is stored
CacheStoreOnlySuccess(c, key, val, t) ==
    IF val.df = EmptyDF
    THEN [k \in {x \in DOMAIN c : CacheValid(c[x], t) /\ x # key} |-> c[k]]
    ELSE [k \in {x \in DOMAIN c : CacheValid(c[x], t)} \cup {key} |->
            IF k = key THEN [df |-> val.df, id |-> val.id, at |-> t] ELSE c[k]]

\* a returned value is stored under the key; expired entries are dropped
CacheStore(c, key, val, t) ==
    [k \in {x \in DOMAIN c : CacheValid(c[x], t)} \cup {key} |->
        IF k = key THEN [df |-> val.df, id |-> val.id, at |-> t] ELSE c[k]]

CacheHit(c, sid, t) == CacheKey(sid) \in DOMAIN c /\ CacheValid(c[CacheKey(sid)], t)

----------------------------------------------------------------------------
(* Indicators *)

RECURSIVE SumClose(_, _, _)
SumClose(s, lo, hi) == IF lo > hi THEN 0 ELSE s[hi].Close + SumClose(s, lo, hi - 1)

RECURSIVE SumVolume(_, _, _)
SumVolume(s, lo, hi) == IF lo > hi THEN 0 ELSE s[hi].Volume + SumVolume(s, lo, hi - 1)

\* variant: the window's first full row is still undefined (off by one)
RollingCloseOffByOne(s, w, t) ==
    IF t <= w \/ t > Len(s) THEN NaN ELSE RNum(SumClose(s, t - w + 1, t), w)

\* df["Close"].rolling(w).mean() at row t (1-based): NaN before w rows exist
RollingClose(s, w, t) ==
    IF t < w \/ t > Len(s) THEN NaN ELSE RNum(SumClose(s, t - w + 1, t), w)

\* df["Volume"].rolling(w).mean() at row t
RollingVolume(s, w, t) ==
    IF t < w \/ t > Len(s) THEN NaN ELSE RNum(SumVolume(s, t - w + 1, t), w)

\* df["MA37"].diff().iloc[-1]
Slope37(s) ==
    IF Len(s) < 2 THEN NaN
    ELSE RSub(RollingClose(s, WinLong, Len(s)), RollingClose(s, WinLong, Len(s) - 1))

\* vol_today / vol_ma20 if vol_ma20 > 0 else None
VolRatio20(s) ==
    LET vol_today == RInt(s[Len(s)].Volume)
        vol_ma20 == RollingVolume(s, WinVol20, Len(s))
    IN  IF RGt(vol_ma20, RInt(0)) THEN RDiv(vol_today, vol_ma20) ELSE PyNone

\* variant: no guard on the divisor
VolRatio5NoGuard(s) ==
    RDiv(RInt(s[Len(s)].Volume), RollingVolume(s, WinVol5, Len(s)))

\* df["Volume"].iloc[-1] / df["Vol_MA5"].iloc[-1] if df["Vol_MA5"].iloc[-1] > 0 else 1.0
VolRatio5(s) ==
    LET vol_ma5 == RollingVolume(s, WinVol5, Len(s))
    IN  IF RGt(vol_ma5, RInt(0)) THEN RDiv(RInt(s[Len(s)].Volume), vol_ma5)
        ELSE RInt(1)

----------------------------------------------------------------------------
(* Position metric *)

NoPnl == [st |-> "unset", amount |-> Unset, pct |-> Unset]
Undefined == [st |-> "undefined", amount |-> Unset, pct |-> Unset]

\* variant: the percentage without the "- 1"
PnLRatioPct(close, cost, sh) ==
    IF cost > 0 /\ sh > 0
    THEN [st |-> "value",
          amount |-> RMul(RSub(close, RInt(cost)), RInt(sh)),
          pct |-> RMul(RDiv(close, RInt(cost)), RInt(100))]
    ELSE Undefined

\* the metric in column c2: the P&L, or the volume when no position is given
PnL(close, cost, sh) ==
    IF cost > 0 /\ sh > 0
    THEN [st |-> "value",
          amount |-> RMul(RSub(close, RInt(cost)), RInt(sh)),
          pct |-> RMul(RSub(RDiv(close, RInt(cost)), RInt(1)), RInt(100))]
    ELSE Undefined

----------------------------------------------------------------------------
(* Diagnosis.  The panels' titles stand for the regimes:                   *)
(*   "數據加載中" / "數據基數不足"  INSUFFICIENT_DATA                        *)
(*   "多頭排列"                     BULLISH_ALIGNED                          *)
(*   "空頭轉弱" / "趨勢走空"        BEARISH                                  *)
(*   "橫盤整理" / "區間震盪"        CONSOLIDATING                            *)

AnyNa(m5, m13, m37) == IsNa(m5) \/ IsNa(m13) \/ IsNa(m37)

\* variant: a chain with a fifth branch for ma5 < ma13
StructuralRegimeWithWeakening(curr_p, m5, m13, m37) ==
    IF AnyNa(m5, m13, m37) THEN "INSUFFICIENT_DATA"
    ELSE IF RGt(curr_p, m37) /\ RGt(m5, m13) /\ RGt(m13, m37) THEN "BULLISH_ALIGNED"
    ELSE IF RLt(curr_p, m37) THEN "BEARISH"
    ELSE IF RLt(m5, m13) THEN "WEAKENING"
    ELSE "CONSOLIDATING"

\* the if/elif chain of the structural panel
StructuralRegime(curr_p, m5, m13, m37) ==
    IF AnyNa(m5, m13, m37) THEN "INSUFFICIENT_DATA"
    ELSE IF RGt(curr_p, m37) /\ RGt(m5, m13) /\ RGt(m13, m37) THEN "BULLISH_ALIGNED"
    ELSE IF RLt(curr_p, m37) THEN "BEARISH"
    ELSE "CONSOLIDATING"

\* the guidance box of the structural panel
StructuralGuidance(curr_p, m5, m13, m37, vr) ==
    IF AnyNa(m5, m13, m37) THEN "info_insufficient"
    ELSE IF RGt(curr_p, m37)
    THEN (IF RGe(vr, RNum(13, 10)) THEN "success_confirmed"
          ELSE IF RLt(vr, RNum(8, 10)) THEN "warning_low_volume"
          ELSE "success_normal")
    ELSE (IF RGe(vr, RNum(13, 10)) THEN "error_break_with_volume"
          ELSE "error_slow_decline")

\* variant: the bullish test without the price condition
CoreRegimeNoPriceTest(curr_p, m5, m13, m37) ==
    IF AnyNa(m5, m13, m37) THEN "INSUFFICIENT_DATA"
    ELSE IF RGt(m5, m13) /\ RGt(m13, m37) THEN "BULLISH_ALIGNED"
    ELSE IF RLt(curr_p, m37) THEN "BEARISH"
    ELSE "CONSOLIDATING"

\* the if/elif chain of the core panel
CoreRegime(curr_p, m5, m13, m37) ==
    IF AnyNa(m5, m13, m37) THEN "INSUFFICIENT_DATA"
    ELSE IF RGt(curr_p, m37) /\ RGt(m5, m13) /\ RGt(m13, m37) THEN "BULLISH_ALIGNED"
    ELSE IF RLt(curr_p, m37) THEN "BEARISH"
    ELSE "CONSOLIDATING"

\* the talk column of the core panel (nothing is written when close = ma37)
CoreTalk(curr_p, m5, m13, m37, vr) ==
    IF AnyNa(m5, m13, m37) THEN "warming_up"
    ELSE IF RGt(curr_p, m37)
    THEN (IF RGe(vr, RNum(13, 10)) THEN "speeding_up"
          ELSE IF RLt(vr, RNum(8, 10)) THEN "nobody_follows"
          ELSE "follow_trend")
    ELSE IF RLt(curr_p, m37)
    THEN (IF RGe(vr, RNum(13, 10)) THEN "falling_knife" ELSE "slow_boil")
    ELSE "nothing"

----------------------------------------------------------------------------
(* The script *)

NoInd == [curr_p |-> Unset, m5 |-> Unset, m13 |-> Unset, m37 |-> Unset,
          slope_37 |-> Unset]
NoStructural == [regime |-> "unset", bias |-> Unset, guidance |-> "unset"]
NoCore == [regime |-> "unset", talk |-> "unset"]

\* variant: no st.stop() after the error
LoadNextNoStop(d) == "indicators"

\* where the script goes after fetch_stock_data returned d: st.stop() on an
\* empty series
LoadNext(d) == IF d = EmptyDF THEN "stopped" ELSE "indicators"

Init ==
    /\ now = 0
    /\ cache = << >>
    /\ runs = 1
    /\ pc = "load"
    /\ stock_id \in RawSymbols
    /\ cost_price \in CostInputs
    /\ shares \in SharesInputs
    /\ fetchLog = << >>
    /\ df = EmptyDF
    /\ final_id = None
    /\ err = FALSE
    /\ ind = NoInd
    /\ vol_ratio = Unset
    /\ pnl = NoPnl
    /\ structural = NoStructural
    /\ core = NoCore

\* section 4: df, final_id = fetch_stock_data(stock_id) through the cache,
\* then the empty check
LoadData ==
    /\ pc = "load"
    /\ IF CacheHit(cache, stock_id, now)
       THEN /\ df' = cache[CacheKey(stock_id)].df
            /\ final_id' = cache[CacheKey(stock_id)].id
            /\ fetchLog' = << >>
            /\ cache' = cache
       ELSE \E resp \in [1..Len(Suffixes) -> Responses] :
              LET r == FetchBody(stock_id, resp) IN
              /\ df' = r.df
              /\ final_id' = r.id
              /\ fetchLog' = r.log
              /\ cache' = CacheStore(cache, CacheKey(stock_id), r, now)
    /\ err' = (df' = EmptyDF)
    /\ pc' = LoadNext(df')
    /\ UNCHANGED << now, runs, stock_id, cost_price, shares, ind, vol_ratio,
                    pnl, structural, core >>

\* section 5: moving averages, line-78 volume ratio, slope
\* (.iloc[-1] of an empty frame raises IndexError)
Indicators ==
    /\ pc = "indicators"
    /\ IF df = EmptyDF
       THEN /\ pc' = "crashed"
            /\ UNCHANGED << ind, vol_ratio >>
       ELSE /\ ind' = [curr_p |-> RInt(df[Len(df)].Close),
                       m5 |-> RollingClose(df, WinShort, Len(df)),
                       m13 |-> RollingClose(df, WinMid, Len(df)),
                       m37 |-> RollingClose(df, WinLong, Len(df)),
                       slope_37 |-> Slope37(df)]
            /\ vol_ratio' = VolRatio20(df)
            /\ pc' = "metrics"
    /\ UNCHANGED << now, cache, runs, stock_id, cost_price, shares, fetchLog,
                    df, final_id, err, pnl, structural, core >>

\* sections 6-8: header, metrics, chart
Metrics ==
    /\ pc = "metrics"
    /\ pnl' = PnL(ind.curr_p, cost_price, shares)
    /\ pc' = "structural"
    /\ UNCHANGED << now, cache, runs, stock_id, cost_price, shares, fetchLog,
                    df, final_id, err, ind, vol_ratio, structural, core >>

\* section 9, first panel
Structural ==
    /\ pc = "structural"
    /\ vol_ratio' = VolRatio5(df)
    /\ structural' =
         [regime |-> StructuralRegime(ind.curr_p, ind.m5, ind.m13, ind.m37),
          bias |-> RMul(RSub(RDiv(ind.curr_p, ind.m37), RInt(1)), RInt(100)),
          guidance |-> StructuralGuidance(ind.curr_p, ind.m5, ind.m13, ind.m37,
                                          vol_ratio')]
    /\ pc' = "core"
    /\ UNCHANGED << now, cache, runs, stock_id, cost_price, shares, fetchLog,
                    df, final_id, err, ind, pnl, core >>

\* section 9, second panel
Core ==
    /\ pc = "core"
    /\ vol_ratio' = VolRatio5(df)
    /\ core' = [regime |-> CoreRegime(ind.curr_p, ind.m5, ind.m13, ind.m37),
                talk |-> CoreTalk(ind.curr_p, ind.m5, ind.m13, ind.m37, vol_ratio')]
    /\ pc' = "done"
    /\ UNCHANGED << now, cache, runs, stock_id, cost_price, shares, fetchLog,
                    df, final_id, err, ind, pnl, structural >>

\* the user changes an input: Streamlit runs the script again from the top
Rerun ==
    /\ pc \in {"done", "stopped"}
    /\ runs < MaxRuns
    /\ runs' = runs + 1
    /\ stock_id' \in RawSymbols
    /\ cost_price' \in CostInputs
    /\ shares' \in SharesInputs
    /\ pc' = "load"
    /\ fetchLog' = << >>
    /\ df' = EmptyDF
    /\ final_id' = None
    /\ err' = FALSE
    /\ ind' = NoInd
    /\ vol_ratio' = Unset
    /\ pnl' = NoPnl
    /\ structural' = NoStructural
    /\ core' = NoCore
    /\ UNCHANGED << now, cache >>

\* time passes between two runs
Tick ==
    /\ pc \in {"done", "stopped"}
    /\ now + TickStep <= MaxTime
    /\ now' = now + TickStep
    /\ UNCHANGED << cache, runs, pc, stock_id, cost_price, shares, fetchLog, df,
                    final_id, err, ind, vol_ratio, pnl, structural, core >>

Next == LoadData \/ Indicators \/ Metrics \/ Structural \/ Core \/ Rerun \/ Tick

Spec == Init /\ [][Next]_vars

\* One run of the script on any series of the family: the state right after
\* fetch_stock_data returned it from the first candidate
InitClassify ==
    /\ now = 0
    /\ runs = 1
    /\ pc = "indicators"
    /\ stock_id = <<"a">>
    /\ cost_price \in CostInputs
    /\ shares \in SharesInputs
    /\ df \in ClassifyFamily
    /\ final_id = Normalize(stock_id) \o Suffixes[1]
    /\ fetchLog = << [id |-> final_id, resp |-> Data(df)] >>
    /\ cache = CacheStore(<< >>, CacheKey(stock_id), [df |-> df, id |-> final_id], now)
    /\ err = FALSE
    /\ ind = NoInd
    /\ vol_ratio = Unset
    /\ pnl = NoPnl
    /\ structural = NoStructural
    /\ core = NoCore

NextClassify == Indicators \/ Metrics \/ Structural \/ Core

SpecClassify == InitClassify /\ [][NextClassify]_vars

----------------------------------------------------------------------------
(* Properties *)

Succeeded(r) == r.kind = "data" /\ r.data # EmptyDF
AllDefined == IsNum(ind.m5) /\ IsNum(ind.m13) /\ IsNum(ind.m37)
Aligned == RGt(ind.curr_p, ind.m37) /\ RGt(ind.m5, ind.m13) /\ RGt(ind.m13, ind.m37)

\* C1: a call that runs the body of fetch_stock_data asks the candidates
\* ".TW" then ".TWO" of the normalized symbol, goes on past a candidate that
\* raised or was empty, stops at the first non-empty one and returns its
\* series and identifier; it returns NotFound (empty series, no identifier)
\* exactly when both candidates raised or were empty.
C1_FirstNonEmptyCandidate ==
    (pc # "load" /\ fetchLog # << >>) =>
        LET n == Len(fetchLog)
            sid == Normalize(stock_id)
        IN  /\ n \in 1..2
            /\ fetchLog[1].id = sid \o <<".", "T", "W">>
            /\ n = 2 => fetchLog[2].id = sid \o <<".", "T", "W", "O">>
            /\ n = 2 => ~Succeeded(fetchLog[1].resp)
            /\ stock_id = <<"A", " ">> => fetchLog[1].id = <<"A", ".", "T", "W">>
            /\ stock_id = <<"a">> => fetchLog[1].id = <<"A", ".", "T", "W">>
            /\ IF Succeeded(fetchLog[n].resp)
               THEN /\ df = fetchLog[n].resp.data
                    /\ final_id = fetchLog[n].id
                    /\ ~err
               ELSE /\ n = 2
                    /\ df = EmptyDF
                    /\ final_id = None

\* C1 witness: the first candidate raised, the second succeeded and its
\* series and identifier were returned without an error
C1_Witness ==
    /\ pc = "indicators"
    /\ Len(fetchLog) = 2
    /\ fetchLog[1].resp.kind = "raise"
    /\ Succeeded(fetchLog[2].resp)
    /\ df = fetchLog[2].resp.data
    /\ final_id = Normalize(stock_id) \o <<".", "T", "W", "O">>
    /\ ~err

C7_NotFoundStops ==
    /\ (pc # "load" /\ df = EmptyDF) =>
          /\ pc = "stopped"
          /\ err
          /\ final_id = None
          /\ ind = NoInd
          /\ vol_ratio = Unset
          /\ pnl = NoPnl
          /\ structural = NoStructural
          /\ core = NoCore
    /\ (\/ ind # NoInd
        \/ vol_ratio # Unset
        \/ pnl # NoPnl
        \/ structural # NoStructural
        \/ core # NoCore
        \/ pc \in {"indicators", "metrics", "structural", "core", "done"})
       => (df # EmptyDF /\ ~err)

\* C7 witness: both candidates failed and the run stopped
C7_Witness ==
    /\ pc = "stopped"
    /\ err
    /\ Len(fetchLog) = 2
    /\ df = EmptyDF
    /\ ind = NoInd

\* C10: a call that ends with NotFound leaves an entry for its raw symbol; a
\* later call with that raw symbol before the entry expires issues no fetch
\* and stops with NotFound, whatever the provider would answer now; once the
\* entry has expired the call fetches again.
C10_NotFoundCached ==
    [][ /\ (pc' = "stopped" /\ pc = "load") =>
              /\ stock_id \in DOMAIN cache'
              /\ cache'[stock_id].df = EmptyDF
              /\ cache'[stock_id].id = None
        /\ (pc = "load" /\ stock_id \in DOMAIN cache /\ cache[stock_id].df = EmptyDF) =>
              IF now < cache[stock_id].at + TTL
              THEN /\ fetchLog' = << >>
                   /\ df' = EmptyDF
                   /\ final_id' = None
                   /\ pc' = "stopped"
                   /\ cache' = cache
              ELSE fetchLog' # << >>
      ]_vars

\* C10 witness: a later run was answered NotFound from the cache
C10_Witness ==
    /\ runs >= 2
    /\ pc = "stopped"
    /\ fetchLog = << >>
    /\ stock_id \in DOMAIN cache
    /\ cache[stock_id].df = EmptyDF
    /\ cache[stock_id].at < now

\* C3 (as stated): a panel reports BULLISH_ALIGNED if and only if the three
\* averages are defined, close > ma37, slope37 > 0 and ma5 > ma13 > ma37.
C3_BullishNeedsRisingSlope ==
    pc = "done" =>
        LET bullish == AllDefined /\ Aligned /\ RGt(ind.slope_37, RInt(0))
        IN  /\ structural.regime = "BULLISH_ALIGNED" <=> bullish
            /\ core.regime = "BULLISH_ALIGNED" <=> bullish

C5_BearishPriority ==
    pc = "done" =>
        /\ (AllDefined /\ RLt(ind.curr_p, ind.m37)) =>
              (structural.regime = "BEARISH" /\ core.regime = "BEARISH")
        /\ structural.regime = core.regime

\* C5 witness: close < ma37 together with ma5 < ma13, reported as BEARISH
C5_Witness ==
    /\ pc = "done"
    /\ AllDefined
    /\ RLt(ind.curr_p, ind.m37)
    /\ RLt(ind.m5, ind.m13)
    /\ structural.regime = "BEARISH"
    /\ core.regime = "BEARISH"

\* C6: the average of window N is undefined exactly while fewer than N bars
\* exist; with any average undefined both panels report INSUFFICIENT_DATA; a
\* series is reported INSUFFICIENT_DATA exactly when it has fewer than 37 bars.
C6_InsufficientData ==
    pc = "done" =>
        /\ IsNa(ind.m5) <=> Len(df) < 5
        /\ IsNa(ind.m13) <=> Len(df) < 13
        /\ IsNa(ind.m37) <=> Len(df) < 37
        /\ (IsNa(ind.m5) \/ IsNa(ind.m13) \/ IsNa(ind.m37)) =>
              (structural.regime = "INSUFFICIENT_DATA" /\ core.regime = "INSUFFICIENT_DATA")
        /\ structural.regime = "INSUFFICIENT_DATA" <=> Len(df) < 37
        /\ core.regime = "INSUFFICIENT_DATA" <=> Len(df) < 37

\* C6 witness: 36 bars, only the long average undefined, INSUFFICIENT_DATA
C6_Witness ==
    /\ pc = "done"
    /\ Len(df) = 36
    /\ IsNum(ind.m5)
    /\ IsNum(ind.m13)
    /\ IsNa(ind.m37)
    /\ structural.regime = "INSUFFICIENT_DATA"
    /\ core.regime = "INSUFFICIENT_DATA"

\* C8: after either panel computed it, vol_ratio is a number (no division by
\* zero happened); with five bars or more it is volume / (5-bar mean volume)
\* when that mean is positive and exactly 1 when the mean is 0.
C8_VolumeRatio ==
    (pc \in {"core", "done"}) =>
        /\ IsNum(vol_ratio)
        /\ Len(df) >= 5 =>
             LET n == Len(df)
                 s == df[n].Volume + df[n - 1].Volume + df[n - 2].Volume
                        + df[n - 3].Volume + df[n - 4].Volume
             IN  IF s > 0
                 THEN vol_ratio.n * s = 5 * df[n].Volume * vol_ratio.d
                 ELSE vol_ratio.n = vol_ratio.d

\* C8 witness: the last five volumes are zero and the ratio is 1
C8_Witness ==
    /\ pc = "done"
    /\ Len(df) >= 5
    /\ \A i \in (Len(df) - 4)..Len(df) : df[i].Volume = 0
    /\ IsNum(vol_ratio)
    /\ vol_ratio.n = vol_ratio.d

\* C9: the position metric is Undefined when cost <= 0 or shares <= 0, and
\* otherwise amount = (close - cost) * shares and pct = (close / cost - 1) * 100,
\* whatever the regime; (120, 100, 1000) gives 20000 and 20, (100, 0, 1000)
\* is Undefined.
C9_PositionEvaluation ==
    (pc \in {"structural", "core", "done"}) =>
        LET close == df[Len(df)].Close IN
        /\ IF cost_price <= 0 \/ shares <= 0
           THEN pnl = Undefined
           ELSE /\ pnl.st = "value"
                /\ IsNum(pnl.amount)
                /\ IsNum(pnl.pct)
                /\ pnl.amount.n = (close - cost_price) * shares * pnl.amount.d
                /\ pnl.pct.n * cost_price = (close - cost_price) * 100 * pnl.pct.d
        /\ (close = 120 /\ cost_price = 100 /\ shares = 1000) =>
              (pnl.amount.n = 20000 * pnl.amount.d /\ pnl.pct.n = 20 * pnl.pct.d)
        /\ (close = 100 /\ cost_price = 0 /\ shares = 1000) => pnl = Undefined

\* C9 witness: close 120, cost 100, 1000 shares: 20000 and 20 percent, in a
\* run whose regime is BULLISH_ALIGNED
C9_Witness ==
    /\ pc = "done"
    /\ df[Len(df)].Close = 120
    /\ cost_price = 100
    /\ shares = 1000
    /\ pnl.st = "value"
    /\ pnl.amount.n = 20000 * pnl.amount.d
    /\ pnl.pct.n = 20 * pnl.pct.d
    /\ structural.regime = "BULLISH_ALIGNED"

====
